---- MODULE Spec2Model ----
(***************************************************************************)
(* NodeStreamConsumer (src/src/consumer.rs): a session- and epoch-scoped   *)
(* consumer over a partitioned, offset-addressed log.  The bus client      *)
(* (kafka::consumer::Consumer) and the broker are modelled by their        *)
(* contract as the consumer uses it: a fetch position and a consumed       *)
(* offset per partition on the client, a committed offset per group and    *)
(* partition on the broker.                                                *)
(***************************************************************************)
EXTENDS Integers, Sequences, FiniteSets, TLC

\* ----------------------------------------------------------------- bound
MaxLog == 2         \* messages published to the topic, all partitions

\* ------------------------------------------------------------ value sets
PartitionOrder == <<0, 1>>       \* partitions, in the order a fetch answers
Partitions == {PartitionOrder[i] : i \in 1..Len(PartitionOrder)}
Bytes == {0, 1}                  \* raw message values
Sessions == {1, 2}               \* session ids (opaque tokens)
Addrs == {"broker_a"}
Epochs == {3}
Topics == {"events"}

None == [some |-> FALSE]
Some(v) == [some |-> TRUE, value |-> v]
NoInstance == [live |-> FALSE]
NoOffset == -1

\* Lowest available offset of a partition (offsets are raw broker offsets).
EarliestOffset(p) == 10 * (p + 1)

VARIABLES
    cfg,        \* the address, epoch and topic capability the caller uses
    log,        \* broker: the messages of the topic, per partition
    committed,  \* broker: committed offset per group id and partition
    inst,       \* the NodeStreamConsumer the caller owns, or NoInstance
    pc,         \* "idle", or "reset" inside reset_with_session
    ret,        \* inside reset_with_session: the value it is about to return
    last,       \* the latest call and what it returned
    polled      \* the polls of the live instance so far: "no" poll yet,
                \* only "failed" ones, or at least one that returned "ok"

vars == <<cfg, log, committed, inst, pc, ret, last, polled>>

\* ------------------------------------------------------- crate::types
\* NodeStreamSessionId::to_group_id: deterministic and injective.
to_group_id(s) == <<"group", s>>

GroupIds == {to_group_id(s) : s \in Sessions}

\* NodeStreamPerEpochTopic::topic_for_epoch
topic_for_epoch(topic, epoch) == <<topic, epoch>>

\* NodeStreamPerEpochTopic::payload_from_bytes: a Result.
payload_from_bytes(b) ==
    IF b = 0 THEN [ok |-> FALSE, err |-> "decode"]
             ELSE [ok |-> TRUE, value |-> <<"payload", b>>]

\* ------------------------------------------------------------ the broker
\* Offset one past the last message of partition p.
LatestOffset(p) == EarliestOffset(p) + Len(log[p])

\* The number of messages of the first k partitions.
RECURSIVE LogSize(_)
LogSize(k) ==
    IF k = 0 THEN 0 ELSE Len(log[PartitionOrder[k]]) + LogSize(k - 1)

\* The raw messages of partition p from offset `from`, n of them.
RawMessages(p, from, n) ==
    [i \in 1..n |-> [offset |-> from + i - 1,
                     value |-> log[p][from + i - 1 - EarliestOffset(p) + 1]]]

\* --------------------------------------------- kafka::consumer::Consumer
\* Builder .with_group(g).with_topic(t).with_fallback_offset(Earliest).create():
\* the consumed offsets are loaded from the group's committed offsets, and a
\* partition is fetched from the offset after its consumed one, or from the
\* earliest offset when the group has none in range.
\* Mutant: the group's committed offsets are not loaded.
LoadConsumed_none(group, p) == [offset |-> NoOffset, dirty |-> FALSE]

LoadConsumed(group, p) ==
    IF committed[group][p] = NoOffset
    THEN [offset |-> NoOffset, dirty |-> FALSE]
    ELSE [offset |-> committed[group][p] - 1, dirty |-> FALSE]

\* Mutant: the fallback offset is the latest one.
FetchStart_latest(group, p) ==
    LET co == LoadConsumed(group, p).offset
    IN  IF co >= EarliestOffset(p) /\ co < LatestOffset(p)
        THEN co + 1
        ELSE LatestOffset(p)

FetchStart(group, p) ==
    LET co == LoadConsumed(group, p).offset
    IN  IF co >= EarliestOffset(p) /\ co < LatestOffset(p)
        THEN co + 1
        ELSE EarliestOffset(p)

CreateConsumer(host, group, topic_str) ==
    [host |-> host,
     group |-> group,
     topic |-> topic_str,
     fetch_offsets |-> [p \in Partitions |-> FetchStart(group, p)],
     consumed_offsets |-> [p \in Partitions |-> LoadConsumed(group, p)]]

\* Consumer::consume_message: the consumed offset only moves forward.
consume_message(kc, p, offset) ==
    IF offset > kc.consumed_offsets[p].offset
    THEN [kc EXCEPT !.consumed_offsets[p] = [offset |-> offset, dirty |-> TRUE]]
    ELSE kc

\* Consumer::consume_messageset: marks the last message of the set.
consume_messageset(kc, w) ==
    IF Len(w.messages) > 0
    THEN consume_message(kc, w.partition, w.messages[Len(w.messages)].offset)
    ELSE kc

\* Mutant: no consumed offset is ever sent.
DirtyPartitions_none(kc) == {}

\* What commit_consumed sends: the dirty partitions.
DirtyPartitions(kc) == {p \in Partitions : kc.consumed_offsets[p].dirty}

\* The broker's offsets of the group after a commit: the offset committed is
\* that of the next message to read.
CommittedAfter(kc) ==
    [committed EXCEPT ![kc.group] =
        [p \in Partitions |->
            IF p \in DirtyPartitions(kc)
            THEN kc.consumed_offsets[p].offset + 1
            ELSE committed[kc.group][p]]]

ClearDirty(kc) ==
    [kc EXCEPT !.consumed_offsets =
        [p \in Partitions |-> [kc.consumed_offsets[p] EXCEPT !.dirty = FALSE]]]

\* --------------------------------------------------------- call results
Ok(v) == [ok |-> TRUE, value |-> v]
Err(kind) == [ok |-> FALSE, kind |-> kind]

\* What `last` records of a call: the operation, "Ok" or the error kind, the
\* messages a poll returned, the session of the instance a constructor
\* returned (its session_id()), the fields of DuplicateSession, and
\* whether the call invoked commit_consumed.
Call(op, kind) ==
    [op |-> op, kind |-> kind, msgs |-> <<>>, session |-> 0,
     old |-> 0, new |-> 0, committing |-> FALSE]

\* ------------------------------------------------ NodeStreamConsumer::new
\* session_id.unwrap_or(NodeStreamSessionId::new()): `fresh` is the id the
\* generator hands out.  (The generator is also run when an id is supplied;
\* that id is discarded unseen and is not counted here.)
unwrap_or(session_id, fresh) ==
    IF session_id.some THEN session_id.value ELSE fresh

\* Mutant: the instance records the epoch after the one it was given.
new_next_epoch(host_addr, session_id, epoch, topic, fresh, createFails) ==
    LET topic_str == topic_for_epoch(topic, epoch)
        session == unwrap_or(session_id, fresh)
    IN  IF createFails
        THEN Err("UnableToCreateConsumer")
        ELSE Ok([live |-> TRUE,
                 host_addr |-> host_addr,
                 session |-> session,
                 kafka_consumer |->
                     CreateConsumer(host_addr, to_group_id(session), topic_str),
                 topic |-> topic,
                 epoch |-> epoch + 1])

new(host_addr, session_id, epoch, topic, fresh, createFails) ==
    LET topic_str == topic_for_epoch(topic, epoch)
        session == unwrap_or(session_id, fresh)
    IN  IF createFails
        THEN Err("UnableToCreateConsumer")
        ELSE Ok([live |-> TRUE,
                 host_addr |-> host_addr,
                 session |-> session,
                 kafka_consumer |->
                     CreateConsumer(host_addr, to_group_id(session), topic_str),
                 topic |-> topic,
                 epoch |-> epoch])

\* NodeStreamConsumer::session_id
session_id(self) == self.session

\* The ids a caller can pass: None, or an id it holds (one it generated, or
\* one read from an instance).
SessionArgs == {None} \cup {Some(s) : s \in Sessions}

\* NodeStreamSessionId::new(): an id that collides with no earlier one.  The
\* ids the state still knows are that of the live instance and those whose
\* group has a committed offset; any other id is as good as new.
UsedSessions ==
    {s \in Sessions : \/ inst.live /\ inst.session = s
                      \/ \E p \in Partitions :
                            committed[to_group_id(s)][p] # NoOffset}

HasFresh == Sessions \ UsedSessions # {}

FreshSession ==
    CHOOSE s \in Sessions \ UsedSessions :
        \A t \in Sessions \ UsedSessions : s <= t

New(sid, createFails) ==
    /\ pc = "idle"
    /\ ~inst.live
    /\ sid.some \/ HasFresh
    /\ LET r == new(cfg.host_addr, sid, cfg.epoch, cfg.topic,
                    IF sid.some THEN 0 ELSE FreshSession, createFails)
       IN  /\ inst' = IF r.ok THEN r.value ELSE NoInstance
           /\ last' = IF r.ok
                      THEN [Call("new", "Ok") EXCEPT !.session = session_id(r.value)]
                      ELSE Call("new", r.kind)
    /\ polled' = "no"
    /\ UNCHANGED <<cfg, log, committed, pc, ret>>

\* ---------------------------------- NodeStreamConsumer::reset_with_session
\* Mutant: the guard is left out.
IsDuplicate_never(self, candidate) == FALSE

\* Line 66: the anti-clobbering guard.
IsDuplicate(self, candidate) == self.session = candidate

\* The session handed to Self::new on the success path.
ResetSeed(self, candidate) == Some(self.session)

\* Lines 64-72: resolve the candidate, reject a duplicate, else construct.
\* `self` is still owned by the call while Self::new runs.
ResetCall(sid, createFails) ==
    /\ pc = "idle"
    /\ inst.live
    /\ sid.some \/ HasFresh
    /\ LET fresh == IF sid.some THEN 0 ELSE FreshSession
           candidate == unwrap_or(sid, fresh)
       IN  ret' = IF IsDuplicate(inst, candidate)
                  THEN Err("DuplicateSession")
                       @@ [old |-> inst.session, new |-> candidate,
                           candidate |-> candidate]
                  ELSE new(inst.host_addr, ResetSeed(inst, candidate), inst.epoch,
                           inst.topic, fresh, createFails)
                       @@ [candidate |-> candidate]
    /\ pc' = "reset"
    /\ UNCHANGED <<cfg, log, committed, inst, last, polled>>

\* The call returns: what is left of `self` (its bus client) is dropped and
\* the caller owns the result.
ResetReturn ==
    /\ pc = "reset"
    /\ inst' = IF ret.ok THEN ret.value ELSE NoInstance
    /\ last' = IF ret.ok
               THEN [Call("reset_with_session", "Ok") EXCEPT
                        !.session = session_id(ret.value),
                        !.old = inst.session, !.new = ret.candidate]
               ELSE IF ret.kind = "DuplicateSession"
               THEN [Call("reset_with_session", ret.kind) EXCEPT
                        !.old = ret.old, !.new = ret.new]
               ELSE [Call("reset_with_session", ret.kind) EXCEPT
                        !.old = inst.session, !.new = ret.candidate]
    /\ pc' = "idle"
    /\ ret' = None
    /\ polled' = "no"
    /\ UNCHANGED <<cfg, log, committed>>

\* ------------------------------------------------ NodeStreamConsumer::poll
\* The numbers of messages a fetch can answer with, per partition: none when
\* the partition has nothing past the fetch position, else one up to all.
FetchCounts(kc) ==
    {n \in [Partitions -> 0..MaxLog] :
        \A p \in Partitions :
            LET avail == LatestOffset(p) - kc.fetch_offsets[p]
            IN  IF avail <= 0 THEN n[p] = 0 ELSE n[p] \in 1..avail}

\* Mutant: the fetch positions stay where they are, so that the next fetch
\* answers with the same messages.
AdvanceFetch_stay(kc, n) == kc

\* The fetch position of each partition moves past what was fetched of it.
AdvanceFetch(kc, n) ==
    [kc EXCEPT !.fetch_offsets =
        [p \in Partitions |-> kc.fetch_offsets[p] + n[p]]]

\* MessageSets::iter(): one messageset per partition that answered with
\* messages, in the order of the answer; empty ones are skipped.
MessageSets(kc, n) ==
    LET all == [i \in 1..Len(PartitionOrder) |->
                    [topic |-> kc.topic,
                     partition |-> PartitionOrder[i],
                     messages |-> RawMessages(PartitionOrder[i],
                                      kc.fetch_offsets[PartitionOrder[i]],
                                      n[PartitionOrder[i]])]]
    IN  SelectSeq(all, LAMBDA w : Len(w.messages) > 0)

\* Consumer::poll(): a fetch that fails leaves the client as it was; one
\* that succeeds moves the fetch positions and gives the messagesets.
kafka_poll(kc, n, fetchFails) ==
    IF fetchFails
    THEN [kc |-> kc, res |-> Err("UnableToPollMessage")]
    ELSE [kc |-> AdvanceFetch(kc, n), res |-> Ok(MessageSets(kc, n))]

\* Lines 88-98: one message to a NodeStreamMessage, or the decode error.
DecodeMessage(m) ==
    LET p == payload_from_bytes(m.value)
    IN  IF p.ok
        THEN Ok([payload |-> p.value, message_offset |-> m.offset])
        ELSE Err("PayloadDeserializeError")

\* Lines 85-100: collect::<Result<Vec<_>, _>>() of the messages of one set.
DecodeMessages(msgs) ==
    IF \E i \in 1..Len(msgs) : ~DecodeMessage(msgs[i]).ok
    THEN Err("PayloadDeserializeError")
    ELSE Ok([i \in 1..Len(msgs) |-> DecodeMessage(msgs[i]).value])

\* Mutant: a messageset that failed to decode is not marked consumed.
MarkThenVals_decode_first(kc, w, vals, markFails) ==
    IF ~vals.ok
    THEN [kc |-> kc, res |-> vals]
    ELSE IF markFails
    THEN [kc |-> kc, res |-> Err("UnableToMarkMessageConsumed")]
    ELSE [kc |-> consume_messageset(kc, w), res |-> vals]

\* Mutant: a decode failure is dropped from the result instead of failing
\* the call.
MarkThenVals_swallow(kc, w, vals, markFails) ==
    IF markFails
    THEN [kc |-> kc, res |-> Err("UnableToMarkMessageConsumed")]
    ELSE [kc |-> consume_messageset(kc, w),
          res |-> IF vals.ok THEN vals ELSE Ok(<<>>)]

\* Lines 101-107: what the closure does with the messageset after decoding
\* it: mark it consumed (the marking error returns at once), then give the
\* decoded messages or the decode error.
MarkThenVals(kc, w, vals, markFails) ==
    IF markFails
    THEN [kc |-> kc, res |-> Err("UnableToMarkMessageConsumed")]
    ELSE [kc |-> consume_messageset(kc, w), res |-> vals]

\* Mutant: after the first error the remaining messagesets are still marked
\* consumed before the error is returned.
RECURSIVE CollectSets_drain(_, _, _, _)
CollectSets_drain(kc, sets, markFailAt, acc) ==
    IF sets = <<>>
    THEN [kc |-> kc, res |-> Ok(acc)]
    ELSE LET w == Head(sets)
             step == MarkThenVals(kc, w, DecodeMessages(w.messages),
                                  markFailAt = Len(acc) + 1)
         IN  IF step.res.ok
             THEN CollectSets_drain(step.kc, Tail(sets), markFailAt,
                                    Append(acc, step.res.value))
             ELSE [kc |-> [step.kc EXCEPT !.consumed_offsets =
                            [p \in Partitions |->
                                IF \E i \in 2..Len(sets) : sets[i].partition = p
                                THEN LET i == CHOOSE i \in 2..Len(sets) :
                                                sets[i].partition = p
                                     IN  consume_messageset(step.kc, sets[i])
                                            .consumed_offsets[p]
                                ELSE step.kc.consumed_offsets[p]]],
                   res |-> step.res]

\* Mutant: every messageset is processed and the error returned is that of
\* the last one that failed.
RECURSIVE CollectSets_last_error(_, _, _, _)
CollectSets_last_error(kc, sets, markFailAt, acc) ==
    IF sets = <<>>
    THEN [kc |-> kc, res |-> Ok(acc)]
    ELSE LET w == Head(sets)
             step == MarkThenVals(kc, w, DecodeMessages(w.messages),
                                  markFailAt = Len(acc) + 1)
         IN  IF step.res.ok
             THEN CollectSets_last_error(step.kc, Tail(sets), markFailAt,
                                         Append(acc, step.res.value))
             ELSE LET rest == CollectSets_last_error(step.kc, Tail(sets),
                                  markFailAt, Append(acc, <<>>))
                  IN  IF rest.res.ok
                      THEN [kc |-> rest.kc, res |-> step.res]
                      ELSE rest

\* Lines 83-109: the messagesets in fetch order, stopping at the first error.
\* markFailAt is the messageset whose marking fails (0: none does).
RECURSIVE CollectSets(_, _, _, _)
CollectSets(kc, sets, markFailAt, acc) ==
    IF sets = <<>>
    THEN [kc |-> kc, res |-> Ok(acc)]
    ELSE LET w == Head(sets)
             step == MarkThenVals(kc, w, DecodeMessages(w.messages),
                                  markFailAt = Len(acc) + 1)
         IN  IF step.res.ok
             THEN CollectSets(step.kc, Tail(sets), markFailAt,
                              Append(acc, step.res.value))
             ELSE step

\* Mutant: the messagesets are joined last first.
RECURSIVE Flatten_reversed(_)
Flatten_reversed(seqs) ==
    IF seqs = <<>> THEN <<>> ELSE Flatten_reversed(Tail(seqs)) \o Head(seqs)

\* Lines 110-112: into_iter().flatten().collect()
RECURSIVE Flatten(_)
Flatten(seqs) ==
    IF seqs = <<>> THEN <<>> ELSE Head(seqs) \o Flatten(Tail(seqs))

\* Mutant: a commit that fails has already written the broker's offsets.
commit_consumed_torn(kc, commitFails) ==
    IF DirtyPartitions(kc) = {}
    THEN [kc |-> kc, committed |-> committed, res |-> Ok(<<>>)]
    ELSE IF commitFails
    THEN [kc |-> kc, committed |-> CommittedAfter(kc),
          res |-> Err("UnableToCommitMessageConsumed")]
    ELSE [kc |-> ClearDirty(kc), committed |-> CommittedAfter(kc),
          res |-> Ok(<<>>)]

\* Mutant: the consumer has no group set, so that every commit is refused.
commit_consumed_no_group(kc, commitFails) ==
    [kc |-> kc, committed |-> committed,
     res |-> Err("UnableToCommitMessageConsumed")]

\* Consumer::commit_consumed(): sends the dirty consumed offsets; with none
\* dirty no request is made.  A request that fails changes nothing.
commit_consumed(kc, commitFails) ==
    IF DirtyPartitions(kc) = {}
    THEN [kc |-> kc, committed |-> committed, res |-> Ok(<<>>)]
    ELSE IF commitFails
    THEN [kc |-> kc, committed |-> committed,
          res |-> Err("UnableToCommitMessageConsumed")]
    ELSE [kc |-> ClearDirty(kc), committed |-> CommittedAfter(kc),
          res |-> Ok(<<>>)]

\* Mutant: a fetch that fails still commits the consumed offsets before the
\* error is returned.
poll_commit_on_fetch_error(self, n, fetchFails, markFailAt, commitFails) ==
    LET f == kafka_poll(self.kafka_consumer, n, fetchFails)
    IN  IF ~f.res.ok
        THEN LET k == commit_consumed(f.kc, commitFails)
             IN  [kc |-> k.kc, committed |-> k.committed, res |-> f.res,
                  committing |-> TRUE]
        ELSE LET c == CollectSets(f.kc, f.res.value, markFailAt, <<>>)
             IN  IF ~c.res.ok
                 THEN [kc |-> c.kc, committed |-> committed, res |-> c.res,
                       committing |-> FALSE]
                 ELSE LET r == Flatten(c.res.value)
                          k == commit_consumed(c.kc, commitFails)
                      IN  [kc |-> k.kc, committed |-> k.committed,
                           res |-> IF k.res.ok THEN Ok(r) ELSE k.res,
                           committing |-> TRUE]

\* Mutant: a poll that fetched no messageset returns without committing.
poll_no_commit_when_empty(self, n, fetchFails, markFailAt, commitFails) ==
    LET f == kafka_poll(self.kafka_consumer, n, fetchFails)
    IN  IF ~f.res.ok
        THEN [kc |-> f.kc, committed |-> committed, res |-> f.res,
              committing |-> FALSE]
        ELSE IF f.res.value = <<>>
        THEN [kc |-> f.kc, committed |-> committed, res |-> Ok(<<>>),
              committing |-> FALSE]
        ELSE LET c == CollectSets(f.kc, f.res.value, markFailAt, <<>>)
             IN  IF ~c.res.ok
                 THEN [kc |-> c.kc, committed |-> committed, res |-> c.res,
                       committing |-> FALSE]
                 ELSE LET r == Flatten(c.res.value)
                          k == commit_consumed(c.kc, commitFails)
                      IN  [kc |-> k.kc, committed |-> k.committed,
                           res |-> IF k.res.ok THEN Ok(r) ELSE k.res,
                           committing |-> TRUE]

\* Mutant: a poll that fails after its fetch takes the fetch positions back
\* to where they were, so that the messages are fetched again.
poll_rewind_on_error(self, n, fetchFails, markFailAt, commitFails) ==
    LET f == kafka_poll(self.kafka_consumer, n, fetchFails)
        rewind(kc) == [kc EXCEPT !.fetch_offsets =
                          self.kafka_consumer.fetch_offsets]
    IN  IF ~f.res.ok
        THEN [kc |-> f.kc, committed |-> committed, res |-> f.res,
              committing |-> FALSE]
        ELSE LET c == CollectSets(f.kc, f.res.value, markFailAt, <<>>)
             IN  IF ~c.res.ok
                 THEN [kc |-> rewind(c.kc), committed |-> committed,
                       res |-> c.res, committing |-> FALSE]
                 ELSE LET r == Flatten(c.res.value)
                          k == commit_consumed(c.kc, commitFails)
                      IN  [kc |-> IF k.res.ok THEN k.kc ELSE rewind(k.kc),
                           committed |-> k.committed,
                           res |-> IF k.res.ok THEN Ok(r) ELSE k.res,
                           committing |-> TRUE]

\* Lines 75-121.
poll(self, n, fetchFails, markFailAt, commitFails) ==
    LET f == kafka_poll(self.kafka_consumer, n, fetchFails)
    IN  IF ~f.res.ok
        THEN [kc |-> f.kc, committed |-> committed, res |-> f.res,
              committing |-> FALSE]
        ELSE LET c == CollectSets(f.kc, f.res.value, markFailAt, <<>>)
             IN  IF ~c.res.ok
                 THEN [kc |-> c.kc, committed |-> committed, res |-> c.res,
                       committing |-> FALSE]
                 ELSE LET r == Flatten(c.res.value)
                          k == commit_consumed(c.kc, commitFails)
                      IN  [kc |-> k.kc, committed |-> k.committed,
                           res |-> IF k.res.ok THEN Ok(r) ELSE k.res,
                           committing |-> TRUE]

Poll(fetchFails, markFailAt, commitFails) ==
    /\ pc = "idle"
    /\ inst.live
    /\ \E n \in FetchCounts(inst.kafka_consumer) :
       LET r == poll(inst, n, fetchFails, markFailAt, commitFails)
       IN  /\ inst' = [inst EXCEPT !.kafka_consumer = r.kc]
           /\ committed' = r.committed
           /\ last' = [Call("poll", IF r.res.ok THEN "Ok" ELSE r.res.kind) EXCEPT
                          !.msgs = IF r.res.ok THEN r.res.value ELSE <<>>,
                          !.committing = r.committing]
           /\ polled' = IF r.res.ok THEN "ok"
                        ELSE IF polled = "no" THEN "failed" ELSE polled
    /\ UNCHANGED <<cfg, log, pc, ret>>

\* The caller drops its instance.
Drop ==
    /\ pc = "idle"
    /\ inst.live
    /\ inst' = NoInstance
    /\ last' = Call("drop", "Ok")
    /\ polled' = "no"
    /\ UNCHANGED <<cfg, log, committed, pc, ret>>

\* A producer appends a message to a partition.
Publish(p, b) ==
    /\ LogSize(Len(PartitionOrder)) < MaxLog
    /\ log' = [log EXCEPT ![p] = Append(@, b)]
    /\ UNCHANGED <<cfg, committed, inst, pc, ret, last, polled>>

\* ------------------------------------------------------ the specification
Init ==
    /\ cfg \in [host_addr : Addrs, epoch : Epochs, topic : Topics]
    /\ log = [p \in Partitions |-> <<>>]
    /\ committed = [g \in GroupIds |-> [p \in Partitions |-> NoOffset]]
    /\ inst = NoInstance
    /\ pc = "idle"
    /\ ret = None
    /\ last = Call("none", "Ok")
    /\ polled = "no"

Next ==
    \/ \E sid \in SessionArgs, createFails \in BOOLEAN : New(sid, createFails)
    \/ \E sid \in SessionArgs, createFails \in BOOLEAN : ResetCall(sid, createFails)
    \/ ResetReturn
    \/ \E fetchFails \in BOOLEAN,
          markFailAt \in 0..Len(PartitionOrder),
          commitFails \in BOOLEAN :
            Poll(fetchFails, markFailAt, commitFails)
    \/ Drop
    \/ \E p \in Partitions, b \in Bytes : Publish(p, b)

Spec == Init /\ [][Next]_vars

\* ============================================================ properties
\* A step of Poll: the one action that keeps a live instance live, pc idle
\* and the log as it is, and ends with a poll as the latest call.  The fetch
\* positions before and after the step give, per partition, the offsets it
\* fetched.
PollStep ==
    /\ pc = "idle" /\ pc' = "idle"
    /\ inst.live /\ inst'.live
    /\ log' = log
    /\ last'.op = "poll"

NumPartitions == Len(PartitionOrder)
FetchPos(self) == self.kafka_consumer.fetch_offsets
Cursor(self) == self.kafka_consumer.consumed_offsets
LogAt(p, off) == log[p][off - EarliestOffset(p) + 1]

\* Partition p's fetched range holds a message that does not decode.
HasBad(pre, post, p) ==
    \E off \in pre[p]..(post[p] - 1) : ~payload_from_bytes(LogAt(p, off)).ok

\* The number of messages fetched of the first k partitions.
RECURSIVE FetchedUpTo(_, _, _)
FetchedUpTo(pre, post, k) ==
    IF k = 0 THEN 0
    ELSE FetchedUpTo(pre, post, k - 1)
         + (post[PartitionOrder[k]] - pre[PartitionOrder[k]])

\* The number of messagesets (partitions with messages) among the first k.
SetsUpTo(pre, post, k) ==
    Cardinality({i \in 1..k : post[PartitionOrder[i]] > pre[PartitionOrder[i]]})

\* Of the messages an Ok poll returned, those of the k-th partition.
ReturnedOf(msgs, pre, post, k) ==
    SubSeq(msgs, FetchedUpTo(pre, post, k - 1) + 1, FetchedUpTo(pre, post, k))

\* What the fetched range of partition p decodes to, in offset order.
DecodedRange(pre, post, p) ==
    [i \in 1..(post[p] - pre[p]) |->
        [payload |-> payload_from_bytes(LogAt(p, pre[p] + i - 1)).value,
         message_offset |-> pre[p] + i - 1]]

RECURSIVE DecodedUpTo(_, _, _)
DecodedUpTo(pre, post, k) ==
    IF k = 0 THEN <<>>
    ELSE DecodedUpTo(pre, post, k - 1) \o DecodedRange(pre, post, PartitionOrder[k])

\* The messages returned of each partition begin at its lowest offset and
\* their offsets increase strictly.
FromEarliest(msgs, pre, post) ==
    \A k \in 1..NumPartitions :
        LET r == ReturnedOf(msgs, pre, post, k)
        IN  /\ r # <<>> => r[1].message_offset = EarliestOffset(PartitionOrder[k])
            /\ \A i \in 1..(Len(r) - 1) :
                   r[i].message_offset < r[i + 1].message_offset

GroupUncommitted(self) ==
    \A p \in Partitions : committed[self.kafka_consumer.group][p] = NoOffset

\* C1: a successful reset_with_session returns an instance whose session_id()
\* is the candidate and differs from the session of the instance it
\* replaced, so that its consumer group differs from the replaced one's.
C1_ResetAdoptsCandidate ==
    (pc = "idle" /\ inst.live
        /\ last.op = "reset_with_session" /\ last.kind = "Ok")
    => /\ session_id(inst) = last.new
       /\ session_id(inst) # last.old
       /\ inst.kafka_consumer.group # to_group_id(last.old)

\* C2: the first poll of the instance a successful reset_with_session
\* returned gives messages from the earliest offset of each partition,
\* whatever the replaced instance had polled and committed.
C2_ResetRestartsFromEarliest ==
    [][(last.op = "reset_with_session" /\ last.kind = "Ok"
            /\ PollStep /\ last'.kind = "Ok")
       => FromEarliest(last'.msgs, FetchPos(inst), FetchPos(inst'))]_vars

\* C3: reset_with_session with the instance's own session fails with
\* DuplicateSession{old, new}, both the current session; the call constructs
\* no consumer, returns no instance and changes neither the local cursor
\* nor any committed offset.
C3_DuplicateRejected ==
    [][/\ \A sid \in SessionArgs, createFails \in BOOLEAN :
            (pc = "idle" /\ pc' = "reset" /\ sid.some /\ sid.value = inst.session
                /\ ResetCall(sid, createFails))
            => /\ ~ret'.ok
               /\ ret'.kind = "DuplicateSession"
               /\ ret'.old = inst.session
               /\ ret'.new = inst.session
               /\ inst' = inst
               /\ committed' = committed
       /\ (ResetReturn /\ ~ret.ok /\ ret.kind = "DuplicateSession")
            => /\ last'.kind = "DuplicateSession"
               /\ last'.old = inst.session
               /\ last'.new = inst.session
               /\ ~inst'.live
               /\ committed' = committed]_vars

C3_Witness ==
    last.op = "reset_with_session" /\ last.kind = "DuplicateSession"

\* C4: a poll invokes the commit only when every messageset it fetched
\* decoded in full and was marked consumed; a poll that ends with
\* UnableToPollMessage, PayloadDeserializeError or
\* UnableToMarkMessageConsumed invokes no commit and leaves every committed
\* offset as it was.
C4_CommitOnlyAfterAll ==
    [][PollStep
       => /\ last'.committing
             => \A p \in Partitions :
                    /\ ~HasBad(FetchPos(inst), FetchPos(inst'), p)
                    /\ FetchPos(inst')[p] > FetchPos(inst)[p]
                       => Cursor(inst')[p].offset = FetchPos(inst')[p] - 1
          /\ last'.kind \in {"UnableToPollMessage", "PayloadDeserializeError",
                             "UnableToMarkMessageConsumed"}
             => /\ ~last'.committing
                /\ committed' = committed]_vars

C4_Witness ==
    /\ last.op = "poll"
    /\ last.kind \in {"PayloadDeserializeError", "UnableToMarkMessageConsumed"}
    /\ inst.live
    /\ DirtyPartitions(inst.kafka_consumer) # {}

\* The first partition, in fetch order, whose fetched range holds a message
\* that does not decode (0: there is none).
FirstBad(pre, post) ==
    IF \E k \in 1..NumPartitions : HasBad(pre, post, PartitionOrder[k])
    THEN CHOOSE k \in 1..NumPartitions :
            /\ HasBad(pre, post, PartitionOrder[k])
            /\ \A j \in 1..(k - 1) : ~HasBad(pre, post, PartitionOrder[j])
    ELSE 0

\* C5: when a fetched messageset holds a message that fails to decode, and
\* marking succeeds up to and for that messageset, poll returns
\* PayloadDeserializeError and the messageset is marked consumed; the local
\* cursor of an instance never moves back, and no poll returns a message at
\* or below it, so no later poll of the instance returns a message of that
\* messageset.
C5_DecodeFailureSkipsBatch ==
    [][/\ \A markFailAt \in 0..NumPartitions, commitFails \in BOOLEAN :
            LET pre == FetchPos(inst)
                post == FetchPos(inst')
                k == FirstBad(pre, post)
            IN  (PollStep /\ k # 0
                    /\ (markFailAt = 0 \/ markFailAt > SetsUpTo(pre, post, k))
                    /\ Poll(FALSE, markFailAt, commitFails))
                => /\ last'.kind = "PayloadDeserializeError"
                   /\ last'.msgs = <<>>
                   /\ Cursor(inst')[PartitionOrder[k]].offset
                        = post[PartitionOrder[k]] - 1
       /\ PollStep
            => \A p \in Partitions :
                   Cursor(inst')[p].offset >= Cursor(inst)[p].offset
       /\ (PollStep /\ last'.kind = "Ok")
            => \A k \in 1..NumPartitions :
                   LET r == ReturnedOf(last'.msgs, FetchPos(inst), FetchPos(inst'), k)
                   IN  \A i \in 1..Len(r) :
                           r[i].message_offset
                             > Cursor(inst)[PartitionOrder[k]].offset]_vars

C5_Witness ==
    /\ last.op = "poll"
    /\ last.kind = "PayloadDeserializeError"
    /\ inst.live
    /\ \E p \in Partitions :
          /\ Cursor(inst)[p].dirty
          /\ Cursor(inst)[p].offset = FetchPos(inst)[p] - 1
          /\ FetchPos(inst)[p] < LatestOffset(p)

\* C6: when every messageset of a poll decodes and is marked but the commit
\* fails, poll returns UnableToCommitMessageConsumed; the local cursor stays
\* past every messageset of the call and every committed offset is what it
\* was before the call.
C6_CommitFailureKeepsCursor ==
    [][LET pre == FetchPos(inst)
           post == FetchPos(inst')
       IN  /\ \A markFailAt \in 0..NumPartitions :
                (/\ PollStep
                 /\ FirstBad(pre, post) = 0
                 /\ markFailAt = 0
                    \/ markFailAt > SetsUpTo(pre, post, NumPartitions)
                 /\ DirtyPartitions(inst'.kafka_consumer) # {}
                 /\ Poll(FALSE, markFailAt, TRUE))
                => last'.kind = "UnableToCommitMessageConsumed"
           /\ (PollStep /\ last'.kind = "UnableToCommitMessageConsumed")
                => /\ committed' = committed
                   /\ \A p \in Partitions :
                        /\ Cursor(inst')[p].offset >= Cursor(inst)[p].offset
                        /\ post[p] > pre[p]
                           => Cursor(inst')[p]
                                = [offset |-> post[p] - 1, dirty |-> TRUE]]_vars

C6_Witness ==
    /\ last.op = "poll"
    /\ last.kind = "UnableToCommitMessageConsumed"
    /\ inst.live
    /\ \E p \in Partitions :
          Cursor(inst)[p].offset + 1 > committed[inst.kafka_consumer.group][p]

\* C7 as claimed: on an instance created on a group without committed
\* offsets, the first poll that succeeds returns messages from the lowest
\* offset of each partition, in strictly increasing offset order.
C7_FirstSuccessfulPollFromEarliest ==
    [][(PollStep /\ polled \in {"no", "failed"} /\ GroupUncommitted(inst)
            /\ last'.kind = "Ok")
       => FromEarliest(last'.msgs, FetchPos(inst), FetchPos(inst'))]_vars

\* C7 as amended: on an instance created on a group without committed
\* offsets, the first poll, when it succeeds, returns messages from the
\* lowest offset of each partition, in strictly increasing offset order.
C7_FirstPollFromEarliest ==
    [][(PollStep /\ polled = "no" /\ GroupUncommitted(inst)
            /\ last'.kind = "Ok")
       => FromEarliest(last'.msgs, FetchPos(inst), FetchPos(inst'))]_vars

C7_Witness ==
    /\ last.op = "poll"
    /\ last.kind = "Ok"
    /\ Len(last.msgs) >= 2
    /\ last.msgs[1].message_offset = EarliestOffset(PartitionOrder[1])
    /\ last.msgs[2].message_offset = EarliestOffset(PartitionOrder[1]) + 1

\* C8 as claimed: a poll whose fetch brings no message returns the empty
\* sequence and no error.
C8_EmptyFetchIsOk ==
    [][\A commitFails \in BOOLEAN :
          (PollStep /\ FetchPos(inst') = FetchPos(inst)
              /\ Poll(FALSE, 0, commitFails))
          => (last'.kind = "Ok" /\ last'.msgs = <<>>)]_vars

\* C8 as amended: a poll whose fetch brings no message returns the empty
\* sequence and no error provided the commit it issues does not fail; the
\* only error it can return is UnableToCommitMessageConsumed, when that
\* commit (of progress earlier polls left uncommitted) fails.
C8_EmptyFetchIsOkUnlessCommitFails ==
    [][\A commitFails \in BOOLEAN :
          (PollStep /\ FetchPos(inst') = FetchPos(inst)
              /\ Poll(FALSE, 0, commitFails))
          => /\ ~commitFails => last'.kind = "Ok"
             /\ last'.kind \in {"Ok", "UnableToCommitMessageConsumed"}
             /\ last'.msgs = <<>>
             /\ last'.kind = "UnableToCommitMessageConsumed"
                => DirtyPartitions(inst.kafka_consumer) # {}]_vars

C8_Witness ==
    /\ last.op = "poll"
    /\ last.kind = "Ok"
    /\ last.msgs = <<>>
    /\ polled = "ok"
    /\ inst.live
    /\ \E p \in Partitions :
          /\ FetchPos(inst)[p] = LatestOffset(p)
          /\ FetchPos(inst)[p] > EarliestOffset(p)

\* C9: the committed offset of a group never decreases.
C9_CommittedNeverDecreases ==
    [][\A g \in GroupIds, p \in Partitions :
          committed'[g][p] >= committed[g][p]]_vars

C9_Witness ==
    /\ last.op = "reset_with_session"
    /\ last.kind = "Ok"
    /\ inst.live
    /\ \E p \in Partitions :
          committed[inst.kafka_consumer.group][p] > EarliestOffset(p) + 1

\* C10: a poll that succeeds returns, for the partitions in fetch order and
\* the offsets of each in increasing order, one decoded message per message
\* fetched, carrying the offset of that message.
C10_ReturnsFetchedInOrder ==
    [][(PollStep /\ last'.kind = "Ok")
       => last'.msgs
            = DecodedUpTo(FetchPos(inst), FetchPos(inst'), NumPartitions)]_vars

C10_Witness ==
    /\ last.op = "poll"
    /\ last.kind = "Ok"
    /\ Len(last.msgs) >= 2
    /\ last.msgs[1].message_offset = EarliestOffset(PartitionOrder[1])
    /\ last.msgs[2].message_offset = EarliestOffset(PartitionOrder[2])

\* C11: while reset_with_session runs and after it returns, the bus client
\* of the instance being replaced and the bus client of the replacement are
\* never alive together under one consumer group.  (Between the return of
\* Self::new at line 72 and the return of the call, both are alive.)
C11_NoTwoClientsInOneGroup ==
    (pc = "reset" /\ ret.ok)
    => ret.value.kafka_consumer.group # inst.kafka_consumer.group

\* The address, epoch and topic capability of an instance.
Scope(self) == <<self.host_addr, self.epoch, self.topic>>

\* C12: poll leaves the address, epoch and topic capability of the instance
\* as they are (session_id only reads the instance), and the instance a
\* successful reset_with_session returns has the address, epoch and topic
\* capability of the instance it replaces.
C12_ScopeKept ==
    [][/\ PollStep => Scope(inst') = Scope(inst)
       /\ (pc = "reset" /\ pc' = "idle" /\ ret.ok)
            => /\ inst'.live
               /\ Scope(inst') = Scope(inst)
               /\ inst'.kafka_consumer.topic = inst.kafka_consumer.topic
               /\ inst'.kafka_consumer.host = inst.kafka_consumer.host]_vars

C12_Witness ==
    /\ pc = "idle"
    /\ inst.live
    /\ last.op = "reset_with_session"
    /\ last.kind = "Ok"
    /\ Scope(inst) = <<cfg.host_addr, cfg.epoch, cfg.topic>>
    /\ \E p \in Partitions : FetchPos(inst)[p] > EarliestOffset(p)

\* C13: after reset_with_session failed with DuplicateSession the caller
\* still has a usable instance, on which it can call reset_with_session
\* again with another session.
C13_DuplicateLeavesInstance ==
    (pc = "idle" /\ last.op = "reset_with_session"
        /\ last.kind = "DuplicateSession")
    => inst.live

\* C14: a poll whose fetch fails returns UnableToPollMessage; it returns no
\* message, marks no messageset, issues no commit, and leaves the local
\* cursor and every committed offset as they were.
C14_FetchFailureNoProgress ==
    [][/\ \A markFailAt \in 0..NumPartitions, commitFails \in BOOLEAN :
            (PollStep /\ Poll(TRUE, markFailAt, commitFails))
            => last'.kind = "UnableToPollMessage"
       /\ (PollStep /\ last'.kind = "UnableToPollMessage")
            => /\ last'.msgs = <<>>
               /\ ~last'.committing
               /\ Cursor(inst') = Cursor(inst)
               /\ committed' = committed]_vars

C14_Witness ==
    /\ last.op = "poll"
    /\ last.kind = "UnableToPollMessage"
    /\ inst.live
    /\ DirtyPartitions(inst.kafka_consumer) # {}
    /\ \E p \in Partitions : FetchPos(inst)[p] < LatestOffset(p)

\* C15: when the marking of messageset k of a poll fails (the messagesets
\* before it having decoded and been marked), poll returns
\* UnableToMarkMessageConsumed and no message; the cursor of each messageset
\* before k is past that messageset, the cursor of messageset k and of each
\* one after it is what it was before the call, no commit is issued and
\* every committed offset is what it was.
C15_MarkFailureStops ==
    [][\A markFailAt \in 1..NumPartitions, commitFails \in BOOLEAN :
          LET pre == FetchPos(inst)
              post == FetchPos(inst')
              bad == FirstBad(pre, post)
          IN  (/\ PollStep
               /\ markFailAt <= SetsUpTo(pre, post, NumPartitions)
               /\ bad = 0 \/ SetsUpTo(pre, post, bad) >= markFailAt
               /\ Poll(FALSE, markFailAt, commitFails))
              => /\ last'.kind = "UnableToMarkMessageConsumed"
                 /\ last'.msgs = <<>>
                 /\ ~last'.committing
                 /\ committed' = committed
                 /\ \A i \in 1..NumPartitions :
                        LET p == PartitionOrder[i]
                        IN  IF post[p] > pre[p]
                               /\ SetsUpTo(pre, post, i) < markFailAt
                            THEN Cursor(inst')[p]
                                   = [offset |-> post[p] - 1, dirty |-> TRUE]
                            ELSE Cursor(inst')[p] = Cursor(inst)[p]]_vars

C15_Witness ==
    /\ last.op = "poll"
    /\ last.kind = "UnableToMarkMessageConsumed"
    /\ inst.live
    /\ LET p == PartitionOrder[1]
           q == PartitionOrder[2]
       IN  /\ Cursor(inst)[p] = [offset |-> FetchPos(inst)[p] - 1, dirty |-> TRUE]
           /\ FetchPos(inst)[q] > EarliestOffset(q)
           /\ Cursor(inst)[q].offset = NoOffset

\* The committed offset of the instance's group is behind its local cursor
\* on partition p: a message the instance marked consumed is not committed.
Lagging(self, com, p) ==
    /\ Cursor(self)[p].offset # NoOffset
    /\ com[self.kafka_consumer.group][p] < Cursor(self)[p].offset + 1

\* C16: a poll that fails with PayloadDeserializeError leaves the committed
\* offset behind the local cursor on the partition of the messageset that
\* failed to decode; no poll that returns an error, and no other step that
\* keeps the instance, moves a committed offset or takes the cursor back;
\* a poll that returns Ok, with or without messages, leaves the committed
\* offset of every partition at the offset after the local cursor.
C16_CommitCatchesUp ==
    [][LET pre == FetchPos(inst)
           post == FetchPos(inst')
       IN  /\ (PollStep /\ last'.kind = "PayloadDeserializeError")
                => LET p == PartitionOrder[FirstBad(pre, post)]
                   IN  /\ FirstBad(pre, post) # 0
                       /\ Cursor(inst')[p].offset = post[p] - 1
                       /\ Lagging(inst', committed', p)
           /\ (PollStep /\ last'.kind # "Ok")
                => /\ committed' = committed
                   /\ \A p \in Partitions :
                          Lagging(inst, committed, p)
                          => Lagging(inst', committed', p)
           /\ (pc = "idle" /\ pc' = "idle" /\ inst.live /\ inst'.live
                    /\ ~PollStep)
                => (committed' = committed /\ inst' = inst)
           /\ (PollStep /\ last'.kind = "Ok")
                => \A p \in Partitions :
                       /\ ~Lagging(inst', committed', p)
                       /\ Lagging(inst, committed, p)
                          => committed'[inst.kafka_consumer.group][p]
                                = Cursor(inst')[p].offset + 1]_vars

C16_Witness ==
    /\ last.op = "poll"
    /\ last.kind = "Ok"
    /\ last.msgs = <<>>
    /\ inst.live
    /\ LET p == PartitionOrder[1]
           q == PartitionOrder[2]
       IN  /\ Len(log[p]) = 1
           /\ ~payload_from_bytes(log[p][1]).ok
           /\ log[q] = <<>>
           /\ Cursor(inst)[p] = [offset |-> EarliestOffset(p), dirty |-> FALSE]
           /\ committed[inst.kafka_consumer.group][p] = EarliestOffset(p) + 1

\* The messageset, counted in fetch order, that holds the first message
\* that does not decode (0: every fetched message decodes).
FirstBadSet(pre, post) ==
    IF FirstBad(pre, post) = 0 THEN 0
    ELSE SetsUpTo(pre, post, FirstBad(pre, post))

\* C17: of the messageset whose marking fails and the first messageset that
\* holds an undecodable message, the one that comes first in fetch order
\* gives the error poll returns; when they are the same messageset the
\* error is UnableToMarkMessageConsumed.
C17_FirstErrorInFetchOrder ==
    [][\A markFailAt \in 0..NumPartitions, commitFails \in BOOLEAN :
          LET pre == FetchPos(inst)
              post == FetchPos(inst')
              bad == FirstBadSet(pre, post)
              mark == IF markFailAt <= SetsUpTo(pre, post, NumPartitions)
                      THEN markFailAt ELSE 0
          IN  (PollStep /\ (bad # 0 \/ mark # 0)
                  /\ Poll(FALSE, markFailAt, commitFails))
              => /\ (mark # 0 /\ (bad = 0 \/ mark <= bad))
                    => last'.kind = "UnableToMarkMessageConsumed"
                 /\ (bad # 0 /\ (mark = 0 \/ bad < mark))
                    => last'.kind = "PayloadDeserializeError"]_vars

C17_Witness ==
    /\ last.op = "poll"
    /\ last.kind = "UnableToMarkMessageConsumed"
    /\ inst.live
    /\ LET p == PartitionOrder[1]
           q == PartitionOrder[2]
       IN  /\ Len(log[p]) = 1
           /\ ~payload_from_bytes(log[p][1]).ok
           /\ log[q] = <<>>
           /\ FetchPos(inst)[p] = EarliestOffset(p) + 1
           /\ Cursor(inst)[p].offset = NoOffset

\* The committed offset of the instance's group on partition p is not past
\* the instance's local cursor (a committed offset is that of the next
\* message to read, a cursor that of the last message consumed).
CommittedNotPastCursor(self, p) ==
    LET c == committed[self.kafka_consumer.group][p]
    IN  \/ c = NoOffset
        \/ Cursor(self)[p].offset # NoOffset /\ c <= Cursor(self)[p].offset + 1

\* The committed offset of the instance's group on partition p is at the
\* instance's local cursor.
CommittedAtCursor(self, p) ==
    LET c == committed[self.kafka_consumer.group][p]
    IN  IF Cursor(self)[p].offset = NoOffset
        THEN c = NoOffset
        ELSE c = Cursor(self)[p].offset + 1

\* C18: for every instance and partition the committed offset of the
\* instance's group is not past the instance's local cursor, and after a
\* poll that returned Ok the two are equal.
C18_CommittedWithinCursor ==
    /\ inst.live
       => \A p \in Partitions : CommittedNotPastCursor(inst, p)
    /\ (pc = "reset" /\ ret.ok)
       => \A p \in Partitions : CommittedNotPastCursor(ret.value, p)
    /\ (inst.live /\ last.op = "poll" /\ last.kind = "Ok")
       => \A p \in Partitions : CommittedAtCursor(inst, p)

C18_Witness ==
    /\ inst.live
    /\ last.op = "poll"
    /\ last.kind = "Ok"
    /\ last.msgs # <<>>
    /\ \A p \in Partitions :
          /\ Cursor(inst)[p].offset >= EarliestOffset(p)
          /\ CommittedAtCursor(inst, p)

\* C19: a poll that fetched n messages and then returns an error (decode,
\* marking or commit) returns none of them and leaves the fetch position of
\* each partition past the messages it fetched; on one instance a fetch
\* position never moves back, and a poll that returns Ok returns only
\* messages at or after the fetch positions it started from; so the
\* messages a failed poll had decoded are returned by no later poll of the
\* instance.
C19_DecodedThenLost ==
    [][/\ (PollStep /\ last'.kind \notin {"Ok", "UnableToPollMessage"})
            => \A n \in FetchCounts(inst.kafka_consumer),
                  markFailAt \in 0..NumPartitions, commitFails \in BOOLEAN :
                  LET r == poll(inst, n, FALSE, markFailAt, commitFails)
                  IN  (~r.res.ok /\ r.res.kind = last'.kind
                          /\ inst'.kafka_consumer = r.kc)
                      => /\ last'.msgs = <<>>
                         /\ \A p \in Partitions :
                                FetchPos(inst')[p] = FetchPos(inst)[p] + n[p]
       /\ PollStep
            => \A p \in Partitions : FetchPos(inst')[p] >= FetchPos(inst)[p]
       /\ (pc = "idle" /\ pc' = "idle" /\ inst.live /\ inst'.live
                /\ ~PollStep)
            => FetchPos(inst') = FetchPos(inst)
       /\ (PollStep /\ last'.kind = "Ok")
            => LET pre == FetchPos(inst)
                   post == FetchPos(inst')
               IN  /\ Len(last'.msgs) = FetchedUpTo(pre, post, NumPartitions)
                   /\ \A k \in 1..NumPartitions :
                          LET r == ReturnedOf(last'.msgs, pre, post, k)
                          IN  \A i \in 1..Len(r) :
                                  r[i].message_offset
                                    >= pre[PartitionOrder[k]]]_vars

C19_Witness ==
    /\ last.op = "poll"
    /\ last.kind \in {"PayloadDeserializeError", "UnableToMarkMessageConsumed",
                      "UnableToCommitMessageConsumed"}
    /\ inst.live
    /\ LET p == PartitionOrder[1]
       IN  /\ Len(log[p]) = 1
           /\ payload_from_bytes(log[p][1]).ok
           /\ FetchPos(inst)[p] = EarliestOffset(p) + 1
           /\ committed[inst.kafka_consumer.group][p] = NoOffset

\* C20 as claimed, for the first poll of an instance made by new: when no
\* failure has occurred the polls of an instance return every published
\* message of a partition, so the first poll, when it returns messages of a
\* partition, returns them from the first published one.
C20_EveryPublishedMessageOnce ==
    [][(PollStep /\ last.op = "new" /\ last.kind = "Ok" /\ last'.kind = "Ok")
       => \A p \in Partitions :
              FetchPos(inst')[p] > FetchPos(inst)[p]
              => FetchPos(inst)[p] = EarliestOffset(p)]_vars

\* C20 as amended: a poll that returns Ok returns, of each partition,
\* exactly the messages from the fetch position it started at up to the
\* one it ends at, each once and in increasing offset order; the fetch
\* position of an instance never moves back and moves only in a poll, so no
\* message is returned by two polls of one instance; and an instance that
\* has not polled yet, on a group without committed offsets, is at the
\* first published message of each partition, so that without failures
\* its polls return every message below its fetch position exactly once.
C20_EachFetchedMessageOnce ==
    [][LET pre == FetchPos(inst)
           post == FetchPos(inst')
       IN  /\ (PollStep /\ last'.kind = "Ok")
                => /\ Len(last'.msgs) = FetchedUpTo(pre, post, NumPartitions)
                   /\ \A k \in 1..NumPartitions :
                          LET p == PartitionOrder[k]
                              r == ReturnedOf(last'.msgs, pre, post, k)
                          IN  /\ Len(r) = post[p] - pre[p]
                              /\ \A i \in 1..Len(r) :
                                     /\ r[i].message_offset = pre[p] + i - 1
                                     /\ r[i].payload
                                          = payload_from_bytes(
                                                LogAt(p, pre[p] + i - 1)).value
           /\ PollStep
                => \A p \in Partitions :
                       /\ post[p] >= pre[p]
                       /\ post[p] <= LatestOffset(p)
           /\ (pc = "idle" /\ pc' = "idle" /\ inst.live /\ inst'.live
                    /\ ~PollStep)
                => post = pre
           /\ (inst'.live /\ polled' = "no"
                    /\ \A p \in Partitions :
                           committed'[inst'.kafka_consumer.group][p] = NoOffset)
                => \A p \in Partitions : post[p] = EarliestOffset(p)]_vars

C20_Witness ==
    /\ last.op = "poll"
    /\ last.kind = "Ok"
    /\ polled = "ok"
    /\ inst.live
    /\ LET p == PartitionOrder[1]
       IN  /\ Len(last.msgs) = 1
           /\ last.msgs[1].message_offset = EarliestOffset(p) + 1
           /\ FetchPos(inst)[p] = LatestOffset(p)
           /\ \A i \in 1..Len(log[p]) : payload_from_bytes(log[p][i]).ok

====
